---------------------------- MODULE Spec2Model ----------------------------
(***************************************************************************)
(* A model of octoprint/tool.go (the tool endpoint's commands and the      *)
(* ToolResponse decoder) and of ui/idle_menu.go (the idle menu panel       *)
(* singleton).                                                             *)
(*                                                                         *)
(* Wire documents are modelled as trees: a document is either a byte       *)
(* sequence that is not JSON ([t |-> "invalid"]) or a JSON value tagged    *)
(* with its kind.  A number is kept as its literal (the value it denotes   *)
(* and the form it was written in), so that decoding it to a float64 and   *)
(* encoding it again is a conversion, not the identity.                    *)
(***************************************************************************)
EXTENDS Integers, Sequences, FiniteSets, TLC

VARIABLES
    pc,                     \* "idle" | "returned": where the caller of octoprint is
    cmd,                    \* the command (or decoder call) that ran last
    calls,                  \* the doRequest calls that invocation made, in order
    reply,                  \* what the transport collaborator answered
    resp,                   \* the response Do returned (or the decoder's receiver)
    err,                    \* the error Do (or UnmarshalJSON) returned
    idleMenuPanelInstance,  \* ui: the package-level singleton pointer
    panels,                 \* ui: every idleMenuPanel constructed so far
    returned,               \* ui: what each IdleMenuPanel call returned, in order
    added                   \* ui: the panels the show* callbacks added to the UI

vars == <<pc, cmd, calls, reply, resp, err,
          idleMenuPanelInstance, panels, returned, added>>
toolVars == <<pc, cmd, calls, reply, resp, err>>
uiVars == <<idleMenuPanelInstance, panels, returned, added>>

----------------------------------------------------------------------------
(* Bounds of the model.                                                    *)

\* the longest `history` array a payload carries
MaxHistory == 2
\* ToolCommand.Limit ranges over -MaxLimit .. MaxLimit
MaxLimit == 10
\* the number of IdleMenuPanel calls in one run
MaxPanelCalls == 3
\* the number of button presses in one run
MaxAdded == 2

----------------------------------------------------------------------------
(* JSON documents.                                                         *)

JNull == [t |-> "null"]
JNum(lit) == [t |-> "num", v |-> lit]
JStr(s) == [t |-> "str", v |-> s]
JArr(s) == [t |-> "arr", v |-> s]
JObj(f) == [t |-> "obj", v |-> f]
\* bytes that are not a JSON document
Garbage == [t |-> "invalid"]

\* A number literal: the value it denotes and the way it is written
\* ("int": 210, "frac": 210.0, "exp": 2.1e2).
Lit(n, form) == [val |-> n, form |-> form]

\* strconv.ParseFloat as the decoder uses it: the float64 a literal denotes.
ParseFloat(lit) == lit.val

\* The encoder's float64 rendering: the shortest literal that reads back as x.
FormatFloat(x) == Lit(x, "int")

\* The encoder's rendering of an int.
FormatInt(n) == Lit(n, "int")

\* Go errors.  nil is NoError.
NoError == "nil"
SyntaxError == "json.SyntaxError"
UnmarshalTypeError == "json.UnmarshalTypeError"

\* The first non-nil error of a sequence of errors (the decoder's saveError).
FirstError(errs) ==
    IF \A i \in DOMAIN errs : errs[i] = NoError THEN NoError
    ELSE errs[CHOOSE i \in DOMAIN errs :
                  /\ errs[i] # NoError
                  /\ \A j \in DOMAIN errs : j < i => errs[j] = NoError]

----------------------------------------------------------------------------
(* Go values: maps and slices are nil or hold elements.                    *)

NilMap == [nil |-> TRUE, m |-> <<>>]
MakeMap(f) == [nil |-> FALSE, m |-> f]
NilSlice == [nil |-> TRUE, s |-> <<>>]
MakeSlice(s) == [nil |-> FALSE, s |-> s]
NilPtr == [nil |-> TRUE]

\* interface{} values, as json.Unmarshal builds them for a generic target.
INil == [t |-> "nil"]

RECURSIVE ToInterface(_)
ToInterface(j) ==
    CASE j.t = "null" -> INil
      [] j.t = "num"  -> [t |-> "float64", v |-> ParseFloat(j.v)]
      [] j.t = "str"  -> [t |-> "string", v |-> j.v]
      [] j.t = "arr"  -> [t |-> "slice",
                          v |-> [i \in DOMAIN j.v |-> ToInterface(j.v[i])]]
      [] j.t = "obj"  -> [t |-> "map",
                          v |-> [k \in DOMAIN j.v |-> ToInterface(j.v[k])]]

\* json.Marshal of an interface{} value.
RECURSIVE Marshal(_)
Marshal(x) ==
    CASE x.t = "nil"     -> JNull
      [] x.t = "float64" -> JNum(FormatFloat(x.v))
      [] x.t = "string"  -> JStr(x.v)
      [] x.t = "slice"   -> JArr([i \in DOMAIN x.v |-> Marshal(x.v[i])])
      [] x.t = "map"     -> JObj([k \in DOMAIN x.v |-> Marshal(x.v[k])])

\* json.Unmarshal(b, &raw) with raw a nil map[string]interface{}.
UnmarshalRaw(b) ==
    CASE b.t = "invalid" -> [raw |-> NilMap, err |-> SyntaxError]
      [] b.t = "null"    -> [raw |-> NilMap, err |-> NoError]
      [] b.t = "obj"     ->
            [raw |-> MakeMap([k \in DOMAIN b.v |-> ToInterface(b.v[k])]),
             err |-> NoError]
      [] OTHER           -> [raw |-> NilMap, err |-> UnmarshalTypeError]

\* raw[k]: the zero value (a nil interface) when k is not a key.
MapIndex(raw, k) == IF k \in DOMAIN raw.m THEN raw.m[k] ELSE INil

\* delete(raw, k): a no-op on a nil map or a missing key.
MapDelete(raw, k) ==
    [nil |-> raw.nil, m |-> [x \in (DOMAIN raw.m) \ {k} |-> raw.m[x]]]

\* json.Marshal of a map[string]interface{}: null when the map is nil.
MarshalMap(raw) ==
    IF raw.nil THEN JNull ELSE JObj([k \in DOMAIN raw.m |-> Marshal(raw.m[k])])

----------------------------------------------------------------------------
(* The typed target: toolResponse{Current map[string]CurrentState,         *)
(* History []*History}.                                                    *)

CurrentStateFields == {"actual", "target", "offset"}
HistoryFields == {"actual", "target", "timestamp"}

\* Decoding into a float64 field: a number sets it, null leaves the zero
\* value, anything else is a type error and leaves the zero value.
DecodeFloat(j) ==
    CASE j.t = "num"  -> [val |-> ParseFloat(j.v), err |-> NoError]
      [] j.t = "null" -> [val |-> 0, err |-> NoError]
      [] OTHER        -> [val |-> 0, err |-> UnmarshalTypeError]

\* Decoding into a struct of float64 fields: keys that name no field are
\* skipped, fields with no key keep the zero value.
DecodeStruct(fields, j) ==
    LET zero == [f \in fields |-> 0]
    IN  CASE j.t = "obj" ->
                LET d == [f \in fields |->
                            IF f \in DOMAIN j.v THEN DecodeFloat(j.v[f])
                            ELSE [val |-> 0, err |-> NoError]]
                IN  [val |-> [f \in fields |-> d[f].val],
                     err |-> IF \E f \in fields : d[f].err # NoError
                             THEN UnmarshalTypeError ELSE NoError]
          [] j.t = "null" -> [val |-> zero, err |-> NoError]
          [] OTHER        -> [val |-> zero, err |-> UnmarshalTypeError]

\* Decoding `current` into map[string]CurrentState.
DecodeCurrent(j) ==
    CASE j.t = "null" -> [val |-> NilMap, err |-> NoError]
      [] j.t = "obj"  ->
            LET d == [k \in DOMAIN j.v |-> DecodeStruct(CurrentStateFields, j.v[k])]
            IN  [val |-> MakeMap([k \in DOMAIN j.v |-> d[k].val]),
                 err |-> IF \E k \in DOMAIN j.v : d[k].err # NoError
                         THEN UnmarshalTypeError ELSE NoError]
      [] OTHER        -> [val |-> NilMap, err |-> UnmarshalTypeError]

\* Decoding one element of `history` into *History: null is a nil pointer.
DecodeEntry(j) ==
    IF j.t = "null" THEN [val |-> NilPtr, err |-> NoError]
    ELSE LET d == DecodeStruct(HistoryFields, j)
         IN  [val |-> [nil |-> FALSE, e |-> d.val], err |-> d.err]

\* Decoding `history` into []*History.
DecodeHistory(j) ==
    CASE j.t = "null" -> [val |-> NilSlice, err |-> NoError]
      [] j.t = "arr"  ->
            LET d == [i \in DOMAIN j.v |-> DecodeEntry(j.v[i])]
            IN  [val |-> MakeSlice([i \in DOMAIN j.v |-> d[i].val]),
                 err |-> FirstError([i \in DOMAIN j.v |-> d[i].err])]
      [] OTHER        -> [val |-> NilSlice, err |-> UnmarshalTypeError]

ZeroResponse == [Current |-> NilMap, History |-> NilSlice]

\* json.Unmarshal(b, i) with i a fresh *toolResponse and b the re-encoded
\* intermediate object.
UnmarshalTyped(b) ==
    LET c == IF "current" \in DOMAIN b.v THEN DecodeCurrent(b.v["current"])
             ELSE [val |-> NilMap, err |-> NoError]
        h == IF "history" \in DOMAIN b.v THEN DecodeHistory(b.v["history"])
             ELSE [val |-> NilSlice, err |-> NoError]
    IN  [val |-> [Current |-> c.val, History |-> h.val],
         err |-> FirstError(<<c.err, h.err>>)]

\* Intermediate with the delete ahead of the read of raw["history"]: the
\* history is gone before it is taken.
Intermediate_DeleteFirst(raw) ==
    JObj([k \in {"current", "history"} |->
            IF k = "current" THEN MarshalMap(MapDelete(raw, "history"))
            ELSE Marshal(MapIndex(MapDelete(raw, "history"), "history"))])

\* Intermediate without the delete: `history` stays among the tool keys.
Intermediate_NoDelete(raw) ==
    JObj([k \in {"current", "history"} |->
            IF k = "current" THEN MarshalMap(raw)
            ELSE Marshal(MapIndex(raw, "history"))])

\* The object UnmarshalJSON re-encodes: the raw keys without `history` under
\* `current`, raw's `history` value under `history`.
Intermediate(raw) ==
    JObj([k \in {"current", "history"} |->
            IF k = "current" THEN MarshalMap(MapDelete(raw, "history"))
            ELSE Marshal(MapIndex(raw, "history"))])

\* UnmarshalJSON without the final assignment to *r.
UnmarshalJSON_NoAssign(r, b) ==
    LET u == UnmarshalRaw(b)
    IN  IF u.err # NoError THEN [r |-> r, err |-> u.err]
        ELSE LET i == UnmarshalTyped(Intermediate(u.raw))
             IN  [r |-> r, err |-> i.err]

\* (r *ToolResponse) UnmarshalJSON(b): the receiver afterwards and the error.
UnmarshalJSON(r, b) ==
    LET u == UnmarshalRaw(b)
    IN  IF u.err # NoError THEN [r |-> r, err |-> u.err]
        ELSE LET i == UnmarshalTyped(Intermediate(u.raw))
             IN  IF i.err # NoError THEN [r |-> r, err |-> i.err]
                 ELSE [r |-> i.val, err |-> NoError]

----------------------------------------------------------------------------
(* Strings built by fmt.Sprintf are sequences of tokens whose concatenation *)
(* is the string.                                                          *)

URITool == <<"/api/printer/tool">>

Digit(d) ==
    CASE d = 0 -> "0" [] d = 1 -> "1" [] d = 2 -> "2" [] d = 3 -> "3"
      [] d = 4 -> "4" [] d = 5 -> "5" [] d = 6 -> "6" [] d = 7 -> "7"
      [] d = 8 -> "8" [] d = 9 -> "9"

RECURSIVE Digits(_)
Digits(n) ==
    IF n < 10 THEN <<Digit(n)>>
    ELSE Append(Digits(n \div 10), Digit(n % 10))

\* The verb %d: a minus sign for a negative number, then the decimal digits.
FormatD(n) == IF n < 0 THEN <<"-">> \o Digits(-n) ELSE Digits(n)

\* The verb %t.
FormatT(b) == IF b THEN <<"true">> ELSE <<"false">>

\* ToolURI with the two query values in each other's place.
ToolURI_ArgsSwapped(c) ==
    URITool \o <<"?history=">> \o FormatD(c.Limit)
            \o <<"&limit=">> \o FormatT(c.History)

\* fmt.Sprintf("%s?history=%t&limit=%d", URITool, cmd.History, cmd.Limit)
ToolURI(c) ==
    URITool \o <<"?history=">> \o FormatT(c.History)
            \o <<"&limit=">> \o FormatD(c.Limit)

\* A doRequest call.  NoBody is the nil io.Reader.
NoBody == [t |-> "nil"]
Request(method, uri, body) == [method |-> method, uri |-> uri, body |-> body]

----------------------------------------------------------------------------
(* ToolCommand.Do                                                          *)

\* json.Unmarshal(b, &r) with r a non-nil *ToolResponse: the decoder walks
\* the pointers down to the first Unmarshaler, except that for the literal
\* null it stops at the first pointer it can set and sets it to nil.
UnmarshalInto(b) ==
    CASE b.t = "invalid" ->
            [ptr |-> [nil |-> FALSE, r |-> ZeroResponse], err |-> SyntaxError]
      [] b.t = "null"    -> [ptr |-> NilPtr, err |-> NoError]
      [] OTHER           ->
            LET u == UnmarshalJSON(ZeroResponse, b)
            IN  [ptr |-> [nil |-> FALSE, r |-> u.r], err |-> u.err]

\* ToolCommand.Do wrapping the transport's error in one of its own.
ToolCommandDoOp_WrapsError(c, rp) ==
    LET made == <<Request("GET", ToolURI(c), NoBody)>>
    IN  IF rp.err # NoError
        THEN [calls |-> made, resp |-> NilPtr, err |-> "octoprint: request failed"]
        ELSE LET u == UnmarshalInto(rp.b)
             IN  IF u.err # NoError
                 THEN [calls |-> made, resp |-> NilPtr, err |-> u.err]
                 ELSE [calls |-> made, resp |-> u.ptr, err |-> rp.err]

\* (cmd *ToolCommand) Do(c): the doRequest calls it makes and what it returns,
\* given what the transport answers.
ToolCommandDoOp(c, rp) ==
    LET made == <<Request("GET", ToolURI(c), NoBody)>>
    IN  IF rp.err # NoError
        THEN [calls |-> made, resp |-> NilPtr, err |-> rp.err]
        ELSE LET u == UnmarshalInto(rp.b)
             IN  IF u.err # NoError
                 THEN [calls |-> made, resp |-> NilPtr, err |-> u.err]
                 ELSE [calls |-> made, resp |-> u.ptr, err |-> rp.err]

----------------------------------------------------------------------------
(* The write commands.                                                     *)

\* json encoding of a map[string]int: null when the map is nil.
MarshalIntMap(mp) ==
    IF mp.nil THEN JNull
    ELSE JObj([k \in DOMAIN mp.m |-> JNum(FormatInt(mp.m[k]))])

\* EncodeEmbedded with the payload struct as a named field: its fields end up
\* under a key of their own.
EncodeEmbedded_Nested(command, inner) ==
    JObj([k \in {"command", "payload"} |->
            IF k = "command" THEN JStr(command) ELSE JObj(inner)])

\* json encoding of struct{Command string `json:"command"`; X} with X an
\* embedded struct: the fields of X are promoted to siblings of `command`,
\* and a field of the outer struct hides a promoted field of the same name.
EncodeEmbedded(command, inner) ==
    JObj([k \in {"command"} \cup DOMAIN inner |->
            IF k = "command" THEN JStr(command) ELSE inner[k]])

\* The encoders return the body written and the encoder's error; encoding
\* strings, ints and maps of ints has no failure case.
TargetEncode(c) ==
    [body |-> EncodeEmbedded("target", [target |-> MarshalIntMap(c.Target)]),
     err |-> NoError]
OffsetEncode(c) ==
    [body |-> EncodeEmbedded("offset", [offsets |-> MarshalIntMap(c.Offsets)]),
     err |-> NoError]
ExtrudeEncode(c) ==
    [body |-> EncodeEmbedded("extrude", [amount |-> JNum(FormatInt(c.Amount))]),
     err |-> NoError]
SelectEncode(c) ==
    [body |-> EncodeEmbedded("select", [tool |-> JStr(c.Tool)]),
     err |-> NoError]
FlowrateEncode(c) ==
    [body |-> EncodeEmbedded("flowrate", [factor |-> JStr(c.Factor)]),
     err |-> NoError]

\* PostEncoded trying the request again after a transport error.
PostEncoded_Retry(e, rp) ==
    IF e.err # NoError
    THEN [calls |-> <<>>, resp |-> NilPtr, err |-> e.err]
    ELSE LET req == Request("POST", URITool, e.body)
         IN  [calls |-> IF rp.err # NoError THEN <<req, req>> ELSE <<req>>,
              resp |-> NilPtr, err |-> rp.err]

\* The body of every write command's Do, given its encoder's result.
PostEncoded(e, rp) ==
    IF e.err # NoError
    THEN [calls |-> <<>>, resp |-> NilPtr, err |-> e.err]
    ELSE [calls |-> <<Request("POST", URITool, e.body)>>,
          resp |-> NilPtr, err |-> rp.err]

TargetCommandDoOp(c, rp) == PostEncoded(TargetEncode(c), rp)
OffsetCommandDoOp(c, rp) == PostEncoded(OffsetEncode(c), rp)
ExtrudeCommandDoOp(c, rp) == PostEncoded(ExtrudeEncode(c), rp)
SelectCommandDoOp(c, rp) == PostEncoded(SelectEncode(c), rp)
FlowrateCommandDoOp(c, rp) == PostEncoded(FlowrateEncode(c), rp)

----------------------------------------------------------------------------
(* The inputs: payloads the server can answer, commands a caller can build. *)

ToolKeys == {"tool0", "bed"}

\* every function from a subset of keys to vals
PartialMaps(keys, vals) == UNION {[ks -> vals] : ks \in SUBSET keys}

\* every sequence over vals of length at most n
SeqsUpTo(vals, n) == UNION {[1..k -> vals] : k \in 0..n}

\* Tool-state records as the server writes them: all three fields, or some
\* left out.
FullRecord ==
    JObj([actual |-> JNum(Lit(199, "frac")), target |-> JNum(Lit(210, "exp")),
          offset |-> JNum(Lit(5, "int"))])
PartialRecord == JObj([actual |-> JNum(Lit(60, "int"))])
RecordValues == {FullRecord, PartialRecord}

\* Values under a tool key that are no tool-state record.
NonRecordValues ==
    {JNull, JStr("off"), JObj([actual |-> JStr("hot")])}

\* History entries, and array elements that are no entry.
EntryA ==
    JObj([timestamp |-> JNum(Lit(1000, "int")), actual |-> JNum(Lit(199, "frac")),
          target |-> JNum(Lit(210, "int"))])
EntryB ==
    JObj([timestamp |-> JNum(Lit(2000, "exp")), actual |-> JNum(Lit(205, "int"))])
EntryValues == {EntryA, EntryB}
NonEntryValues == {JStr("x")}

\* What the `history` key can hold: an array, null, or something else.
HistoryValues ==
    {JArr(s) : s \in SeqsUpTo(EntryValues \cup NonEntryValues, MaxHistory)}
        \cup {JNull, JStr("none")}

\* The JSON objects the server can answer with.
ObjectPayloads ==
    LET tools == PartialMaps(ToolKeys, RecordValues \cup NonRecordValues)
    IN  {JObj(f) : f \in tools}
            \cup {JObj([k \in DOMAIN f \cup {"history"} |->
                            IF k = "history" THEN h ELSE f[k]]) :
                    f \in tools, h \in HistoryValues}

\* Every byte sequence the transport can hand back.
Payloads ==
    ObjectPayloads \cup {Garbage, JNull, JArr(<<>>), JNum(Lit(1, "int")), JStr("ok")}

\* Errors of the transport collaborator.
TransportErrors == {"transport: connection refused", "transport: status 500"}

\* doRequest's results: bytes and no error, or an error.
ReadReplies ==
    {[b |-> p, err |-> NoError] : p \in Payloads}
        \cup {[b |-> Garbage, err |-> e] : e \in TransportErrors}
WriteReplies ==
    {[b |-> p, err |-> e] :
        p \in {Garbage, JNull, JObj(<<>>)}, e \in {NoError} \cup TransportErrors}

Temperatures == {0, 210}
IntMaps == {NilMap} \cup {MakeMap(f) : f \in PartialMaps(ToolKeys, Temperatures)}

ToolCommands ==
    {[kind |-> "ToolCommand", History |-> h, Limit |-> n] :
        h \in BOOLEAN, n \in (-MaxLimit)..MaxLimit}
TargetCommands == {[kind |-> "TargetCommand", Target |-> mp] : mp \in IntMaps}
OffsetCommands == {[kind |-> "OffsetCommand", Offsets |-> mp] : mp \in IntMaps}
ExtrudeCommands == {[kind |-> "ExtrudeCommand", Amount |-> a] : a \in {-5, 0, 5}}
SelectCommands == {[kind |-> "SelectCommand", Tool |-> t] : t \in {"", "tool0", "tool1"}}
FlowrateCommands == {[kind |-> "FlowrateCommand", Factor |-> f] : f \in {"", "75", "125"}}

\* Receivers a decoder call can be handed: a fresh one, or one decoded before.
Receivers ==
    {ZeroResponse,
     [Current |-> MakeMap([k \in {"tool1"} |-> [f \in CurrentStateFields |-> 1]]),
      History |-> MakeSlice(<<NilPtr>>)]}

----------------------------------------------------------------------------
(* The state machine of a caller of package octoprint.                     *)

NoCommand == [kind |-> "none"]
NoReply == [b |-> Garbage, err |-> NoError]

ToolInit ==
    /\ pc = "idle"
    /\ cmd = NoCommand
    /\ calls = <<>>
    /\ reply = NoReply
    /\ resp = NilPtr
    /\ err = NoError

\* One whole Do: the command c runs against a transport that answers rp.
Ran(c, rp, d) ==
    /\ pc' = "returned"
    /\ cmd' = c
    /\ reply' = rp
    /\ calls' = d.calls
    /\ resp' = d.resp
    /\ err' = d.err
    /\ UNCHANGED uiVars

ToolCommandDo ==
    /\ pc = "idle"
    /\ \E c \in ToolCommands, rp \in ReadReplies :
            Ran(c, rp, ToolCommandDoOp(c, rp))
TargetCommandDo ==
    /\ pc = "idle"
    /\ \E c \in TargetCommands, rp \in WriteReplies :
            Ran(c, rp, TargetCommandDoOp(c, rp))
OffsetCommandDo ==
    /\ pc = "idle"
    /\ \E c \in OffsetCommands, rp \in WriteReplies :
            Ran(c, rp, OffsetCommandDoOp(c, rp))
ExtrudeCommandDo ==
    /\ pc = "idle"
    /\ \E c \in ExtrudeCommands, rp \in WriteReplies :
            Ran(c, rp, ExtrudeCommandDoOp(c, rp))
SelectCommandDo ==
    /\ pc = "idle"
    /\ \E c \in SelectCommands, rp \in WriteReplies :
            Ran(c, rp, SelectCommandDoOp(c, rp))
FlowrateCommandDo ==
    /\ pc = "idle"
    /\ \E c \in FlowrateCommands, rp \in WriteReplies :
            Ran(c, rp, FlowrateCommandDoOp(c, rp))

\* A direct call r.UnmarshalJSON(b).
UnmarshalJSONCall ==
    /\ pc = "idle"
    /\ \E r \in Receivers, b \in Payloads :
            LET u == UnmarshalJSON(r, b)
            IN  Ran([kind |-> "UnmarshalJSON", r |-> r, b |-> b], NoReply,
                    [calls |-> <<>>, resp |-> [nil |-> FALSE, r |-> u.r],
                     err |-> u.err])

\* The caller takes the result; nothing of the call is kept.
Return ==
    /\ pc = "returned"
    /\ pc' = "idle"
    /\ cmd' = NoCommand
    /\ calls' = <<>>
    /\ reply' = NoReply
    /\ resp' = NilPtr
    /\ err' = NoError
    /\ UNCHANGED uiVars

----------------------------------------------------------------------------
(* ui/idle_menu.go                                                         *)

\* The callers' arguments: the UI, and the parent panel (nil or a panel).
UIs == {"ui1", "ui2"}
Parents == {"nil", "splash"}

\* A pointer to an idleMenuPanel is its index in `panels`; 0 is nil.
NilPanel == 0

\* One Grid().Attach(MustButtonImageStyle(label, image, style, callback),
\* left, top, 1, 1).
Button(label, image, style, callback, left, top) ==
    [label |-> label, image |-> image, style |-> style, callback |-> callback,
     left |-> left, top |-> top, width |-> 1, height |-> 1]

\* &idleMenuPanel{CommonPanel: NewCommonPanel(ui, parent)}
NewIdleMenuPanel(ui, parent) ==
    [UI |-> ui, parent |-> parent, grid |-> <<>>, initialized |-> 0]

\* (m *idleMenuPanel) initialize(): the five buttons are attached, then the
\* deferred CommonPanel.Initialize runs.
initialize(m) ==
    LET attached ==
            m.grid \o
            <<Button("Network", "network.svg", "color1", "showNetwork", 1, 0),
              Button("ToolChanger", "toolchanger.svg", "color2", "showToolchanger", 2, 0),
              Button("Control", "control.svg", "color4", "showControl", 3, 0),
              Button("System", "settings.svg", "color3", "showSystem", 4, 0),
              Button("Temperature", "heat-up.svg", "color4", "showTemperature", 1, 1)>>
    IN  [m EXCEPT !.grid = attached, !.initialized = m.initialized + 1]

\* IdleMenuPanel without the assignment to idleMenuPanelInstance.
IdleMenuPanelOp_NoStore(instance, heap, ui, parent) ==
    IF instance = NilPanel
    THEN LET m == initialize(NewIdleMenuPanel(ui, parent))
             h == Append(heap, m)
         IN  [instance |-> instance, panels |-> h, result |-> Len(h)]
    ELSE [instance |-> instance, panels |-> heap, result |-> instance]

\* IdleMenuPanel(ui, parent): the heap and the singleton afterwards, and the
\* panel returned.
IdleMenuPanelOp(instance, heap, ui, parent) ==
    IF instance = NilPanel
    THEN LET m == initialize(NewIdleMenuPanel(ui, parent))
             h == Append(heap, m)
         IN  [instance |-> Len(h), panels |-> h, result |-> Len(h)]
    ELSE [instance |-> instance, panels |-> heap, result |-> instance]

UIInit ==
    /\ idleMenuPanelInstance = NilPanel
    /\ panels = <<>>
    /\ returned = <<>>
    /\ added = <<>>

IdleMenuPanel ==
    /\ Len(returned) < MaxPanelCalls
    /\ \E ui \in UIs, parent \in Parents :
            LET d == IdleMenuPanelOp(idleMenuPanelInstance, panels, ui, parent)
            IN  /\ idleMenuPanelInstance' = d.instance
                /\ panels' = d.panels
                /\ returned' = Append(returned,
                                      [ui |-> ui, parent |-> parent, result |-> d.result])
    /\ UNCHANGED <<added, toolVars>>

\* A button of panel m is pressed: its callback runs m.UI.Add(X(m.UI, m)).
Pressed(m, callback, panel) ==
    /\ m \in DOMAIN panels
    /\ \E i \in DOMAIN panels[m].grid : panels[m].grid[i].callback = callback
    /\ Len(added) < MaxAdded
    /\ added' = Append(added, [ui |-> panels[m].UI, panel |-> panel, parent |-> m])
    /\ UNCHANGED <<idleMenuPanelInstance, panels, returned, toolVars>>

showTemperature ==
    /\ panels # <<>>
    /\ \E m \in DOMAIN panels : Pressed(m, "showTemperature", "TemperaturePanel")
showControl ==
    /\ panels # <<>>
    /\ \E m \in DOMAIN panels : Pressed(m, "showControl", "ControlPanel")
showNetwork ==
    /\ panels # <<>>
    /\ \E m \in DOMAIN panels : Pressed(m, "showNetwork", "NetworkPanel")
showToolchanger ==
    /\ panels # <<>>
    /\ \E m \in DOMAIN panels : Pressed(m, "showToolchanger", "ToolchangerPanel")
showSystem ==
    /\ panels # <<>>
    /\ \E m \in DOMAIN panels : Pressed(m, "showSystem", "SystemPanel")

NextUI ==
    \/ IdleMenuPanel
    \/ showTemperature
    \/ showControl
    \/ showNetwork
    \/ showToolchanger
    \/ showSystem

----------------------------------------------------------------------------

Init == ToolInit /\ UIInit

Next ==
    \/ ToolCommandDo
    \/ TargetCommandDo
    \/ OffsetCommandDo
    \/ ExtrudeCommandDo
    \/ SelectCommandDo
    \/ FlowrateCommandDo
    \/ UnmarshalJSONCall
    \/ Return

\* The callers of package octoprint.
Spec == Init /\ [][Next]_vars

\* The callers of IdleMenuPanel and the buttons of the panel.
SpecUI == Init /\ [][NextUI]_vars

----------------------------------------------------------------------------
(* Vocabulary of the properties.                                           *)

ReadKinds == {"ToolCommand"}
WriteKinds == {"TargetCommand", "OffsetCommand", "ExtrudeCommand",
               "SelectCommand", "FlowrateCommand"}

\* A Do of one of the six commands has returned.
DoReturned == pc = "returned" /\ cmd.kind \in ReadKinds \cup WriteKinds

\* The decoder has run on Input: called directly, or by ToolCommand.Do after
\* the transport succeeded.
Decoded ==
    /\ pc = "returned"
    /\ \/ cmd.kind = "UnmarshalJSON"
       \/ cmd.kind = "ToolCommand" /\ reply.err = NoError
Input == IF cmd.kind = "UnmarshalJSON" THEN cmd.b ELSE reply.b

\* j is an object whose values under the given field names are numbers.
IsRecordOf(fields, j) ==
    /\ j.t = "obj"
    /\ \A f \in (DOMAIN j.v) \cap fields : j.v[f].t = "num"

\* b is a tool-state payload: an object whose values are tool-state records,
\* but for `history`, which holds an array of entries.
ValidPayload(b) ==
    /\ b.t = "obj"
    /\ \A k \in DOMAIN b.v :
            IF k = "history"
            THEN /\ b.v[k].t = "arr"
                 /\ \A i \in DOMAIN b.v[k].v : IsRecordOf(HistoryFields, b.v[k].v[i])
            ELSE IsRecordOf(CurrentStateFields, b.v[k])

\* The number a record of the payload holds under f; zero when it has none.
FieldValue(j, f) == IF f \in DOMAIN j.v THEN j.v[f].v.val ELSE 0

\* The entries of the payload's `history` array; none when it has no such key.
HistoryOf(b) == IF "history" \in DOMAIN b.v THEN b.v["history"].v ELSE <<>>

----------------------------------------------------------------------------
\* C1: for a valid tool-state payload the decoder partitions the keys exactly:
\* Current has the payload's keys but `history`, each with the actual, target
\* and offset it had in the payload, and History has the entries of the
\* payload's `history` array, in order.
C1_PartitionsExactly ==
    (Decoded /\ ValidPayload(Input)) =>
        /\ err = NoError
        /\ ~resp.nil
        /\ DOMAIN resp.r.Current.m = (DOMAIN Input.v) \ {"history"}
        /\ \A k \in (DOMAIN Input.v) \ {"history"} : \A f \in CurrentStateFields :
                resp.r.Current.m[k][f] = FieldValue(Input.v[k], f)
        /\ Len(resp.r.History.s) = Len(HistoryOf(Input))
        /\ \A i \in DOMAIN HistoryOf(Input) :
                /\ ~resp.r.History.s[i].nil
                /\ \A f \in HistoryFields :
                        resp.r.History.s[i].e[f] = FieldValue(HistoryOf(Input)[i], f)

\* A direct call on a used receiver decoded two tools and two different
\* history entries.
C1_Witness ==
    /\ Decoded /\ ValidPayload(Input)
    /\ cmd.kind = "UnmarshalJSON" /\ cmd.r # ZeroResponse
    /\ (DOMAIN Input.v) \ {"history"} = ToolKeys
    /\ Input.v["tool0"] # Input.v["bed"]
    /\ Len(HistoryOf(Input)) = 2
    /\ HistoryOf(Input)[1] # HistoryOf(Input)[2]

\* C2: a payload of tool-state records with no `history` key decodes without
\* an error to an empty History; the empty object decodes to an empty Current
\* and an empty History.
C2_NoHistoryIsEmpty ==
    (Decoded /\ ValidPayload(Input) /\ "history" \notin DOMAIN Input.v) =>
        /\ err = NoError
        /\ ~resp.nil
        /\ Len(resp.r.History.s) = 0
        /\ (DOMAIN Input.v = {} => DOMAIN resp.r.Current.m = {})

\* The empty object was decoded by a direct call.
C2_Witness ==
    /\ Decoded /\ cmd.kind = "UnmarshalJSON"
    /\ Input = JObj(<<>>)
    /\ err = NoError

\* C3: every Do calls doRequest exactly once, whether the call fails or not.
C3_OneRoundTrip == DoReturned => Len(calls) = 1

\* A SelectCommand ran into a transport error.
C3_Witness ==
    /\ DoReturned /\ cmd.kind = "SelectCommand"
    /\ reply.err \in TransportErrors
    /\ Len(calls) = 1

\* C4: a transport error is returned as it is, with a nil response for the
\* read command; a write command returns exactly the transport's error result.
C4_TransportErrorUnchanged ==
    DoReturned =>
        /\ reply.err # NoError => (err = reply.err /\ resp.nil)
        /\ cmd.kind \in WriteKinds => err = reply.err

\* A ToolCommand ran into a transport error.
C4_Witness ==
    /\ DoReturned /\ cmd.kind = "ToolCommand"
    /\ reply.err \in TransportErrors
    /\ err = reply.err

\* b decodes: it is a JSON object and its re-encoded intermediate decodes into
\* the typed structure.
Normalizable(b) == b.t = "obj" /\ UnmarshalJSON(ZeroResponse, b).err = NoError

\* C5: when the transport succeeds with bytes that cannot be decoded,
\* ToolCommand.Do returns an error, and one that is no transport error.
C5_MalformedIsAnError ==
    (DoReturned /\ cmd.kind = "ToolCommand" /\ reply.err = NoError
        /\ ~Normalizable(reply.b)) =>
        /\ err # NoError
        /\ err \notin TransportErrors

\* C6: ToolCommand.Do returns either an error and no response, or no error and
\* the response the decoder produced from the bytes.
C6_AllOrNothing ==
    (DoReturned /\ cmd.kind = "ToolCommand") =>
        \/ err # NoError /\ resp.nil
        \/ /\ err = NoError
           /\ ~resp.nil
           /\ Normalizable(reply.b)
           /\ resp.r = UnmarshalJSON(ZeroResponse, reply.b).r


\* The discriminator and the payload key the server expects of each write
\* command.
Discriminator ==
    [k \in WriteKinds |->
        CASE k = "TargetCommand"   -> "target"
          [] k = "OffsetCommand"   -> "offset"
          [] k = "ExtrudeCommand"  -> "extrude"
          [] k = "SelectCommand"   -> "select"
          [] k = "FlowrateCommand" -> "flowrate"]
PayloadKey ==
    [k \in WriteKinds |->
        CASE k = "TargetCommand"   -> "target"
          [] k = "OffsetCommand"   -> "offsets"
          [] k = "ExtrudeCommand"  -> "amount"
          [] k = "SelectCommand"   -> "tool"
          [] k = "FlowrateCommand" -> "factor"]

\* j is the JSON form of the map of ints mp: null for a nil map, else an
\* object with the keys of mp, each holding the number mp has there.
IsIntMap(j, mp) ==
    IF mp.nil THEN j.t = "null"
    ELSE /\ j.t = "obj"
         /\ DOMAIN j.v = DOMAIN mp.m
         /\ \A k \in DOMAIN mp.m : j.v[k].t = "num" /\ j.v[k].v.val = mp.m[k]

\* j is the JSON form of the payload field of the write command c.
IsPayloadOf(j, c) ==
    CASE c.kind = "TargetCommand"   -> IsIntMap(j, c.Target)
      [] c.kind = "OffsetCommand"   -> IsIntMap(j, c.Offsets)
      [] c.kind = "ExtrudeCommand"  -> j.t = "num" /\ j.v.val = c.Amount
      [] c.kind = "SelectCommand"   -> j.t = "str" /\ j.v = c.Tool
      [] c.kind = "FlowrateCommand" -> j.t = "str" /\ j.v = c.Factor

\* C7: a write command POSTs, to the tool endpoint without a query, one JSON
\* object whose keys are `command` and the command's payload key, holding the
\* command's discriminator and its field value; no two commands share a
\* discriminator.
C7_WriteBody ==
    (DoReturned /\ cmd.kind \in WriteKinds) =>
        /\ calls # <<>>
        /\ calls[1].method = "POST"
        /\ calls[1].uri = <<"/api/printer/tool">>
        /\ calls[1].body.t = "obj"
        /\ DOMAIN calls[1].body.v = {"command", PayloadKey[cmd.kind]}
        /\ calls[1].body.v["command"] = JStr(Discriminator[cmd.kind])
        /\ IsPayloadOf(calls[1].body.v[PayloadKey[cmd.kind]], cmd)
        /\ \A k \in WriteKinds \ {cmd.kind} :
                calls[1].body.v["command"] # JStr(Discriminator[k])

\* A TargetCommand setting both tools was sent.
C7_Witness ==
    /\ DoReturned /\ cmd.kind = "TargetCommand"
    /\ ~cmd.Target.nil /\ DOMAIN cmd.Target.m = ToolKeys
    /\ cmd.Target.m["tool0"] # cmd.Target.m["bed"]
    /\ calls # <<>> /\ calls[1].body.t = "obj"

\* The digit a token stands for; 10 for a token that is no digit.
DigitValue(ch) ==
    CASE ch = "0" -> 0 [] ch = "1" -> 1 [] ch = "2" -> 2 [] ch = "3" -> 3
      [] ch = "4" -> 4 [] ch = "5" -> 5 [] ch = "6" -> 6 [] ch = "7" -> 7
      [] ch = "8" -> 8 [] ch = "9" -> 9 [] OTHER -> 10

\* ds is a decimal numeral: digits only, no leading zero but for "0" itself.
IsNumeral(ds) ==
    /\ ds # <<>>
    /\ \A i \in DOMAIN ds : DigitValue(ds[i]) < 10
    /\ Len(ds) > 1 => ds[1] # "0"

RECURSIVE NumeralValue(_)
NumeralValue(ds) ==
    IF ds = <<>> THEN 0
    ELSE 10 * NumeralValue(SubSeq(ds, 1, Len(ds) - 1)) + DigitValue(ds[Len(ds)])

\* ts is the decimal integer n: a numeral, behind a minus sign when n < 0.
IsDecimalOf(ts, n) ==
    IF n < 0
    THEN /\ ts # <<>> /\ ts[1] = "-"
         /\ IsNumeral(Tail(ts)) /\ NumeralValue(Tail(ts)) = -n
    ELSE IsNumeral(ts) /\ NumeralValue(ts) = n

\* C8: whatever History and Limit are, ToolCommand.Do issues one GET without
\* a body to the tool endpoint followed by ?history=<true|false>&limit=<n in
\* decimal>.
C8_ReadRequest ==
    (DoReturned /\ cmd.kind = "ToolCommand") =>
        /\ Len(calls) = 1
        /\ calls[1].method = "GET"
        /\ calls[1].body = NoBody
        /\ Len(calls[1].uri) > 4
        /\ SubSeq(calls[1].uri, 1, 4) =
                <<"/api/printer/tool", "?history=",
                  IF cmd.History THEN "true" ELSE "false", "&limit=">>
        /\ IsDecimalOf(SubSeq(calls[1].uri, 5, Len(calls[1].uri)), cmd.Limit)

\* A request with history and a negative limit of two digits was sent.
C8_Witness ==
    /\ DoReturned /\ cmd.kind = "ToolCommand"
    /\ cmd.History /\ cmd.Limit = -MaxLimit
    /\ Len(calls) = 1 /\ Len(calls[1].uri) = 7

\* The wire form of a decoded record.
FlatRecord(fields, rec) == JObj([f \in fields |-> JNum(Lit(rec[f], "int"))])

\* The wire form of a decoded response: the keys of Current at the top level,
\* beside a `history` key holding History.
Flatten(r) ==
    LET h == IF r.History.nil THEN JNull
             ELSE JArr([i \in DOMAIN r.History.s |->
                          IF r.History.s[i].nil THEN JNull
                          ELSE FlatRecord(HistoryFields, r.History.s[i].e)])
    IN  JObj([k \in (DOMAIN r.Current.m) \cup {"history"} |->
                IF k = "history" THEN h
                ELSE FlatRecord(CurrentStateFields, r.Current.m[k])])

\* C9: decoding the wire form of a decoded response gives the same Current
\* mapping and the same History sequence again.
C9_Idempotent ==
    (Decoded /\ err = NoError /\ ~resp.nil) =>
        LET again == UnmarshalJSON(ZeroResponse, Flatten(resp.r))
        IN  /\ again.err = NoError
            /\ again.r.Current.m = resp.r.Current.m
            /\ again.r.History.s = resp.r.History.s

\* A payload with a tool and no `history` key was decoded.
C9_Witness ==
    /\ Decoded /\ err = NoError /\ ~resp.nil
    /\ ValidPayload(Input)
    /\ "history" \notin DOMAIN Input.v
    /\ "bed" \in DOMAIN resp.r.Current.m
    /\ resp.r.History.nil

\* C10: at most one idleMenuPanel is ever constructed; it is built from the
\* first call's arguments and initialized once, every call returns it, and
\* idleMenuPanelInstance holds it from the first call on.
C10_Singleton ==
    /\ Len(panels) <= 1
    /\ returned = <<>> => (idleMenuPanelInstance = NilPanel /\ panels = <<>>)
    /\ returned # <<>> =>
            /\ Len(panels) = 1
            /\ idleMenuPanelInstance = 1
            /\ panels[1].UI = returned[1].ui
            /\ panels[1].parent = returned[1].parent
            /\ panels[1].initialized = 1
            /\ Len(panels[1].grid) = 5
            /\ \A i \in DOMAIN returned : returned[i].result = 1

\* A later call with another ui and another parent returned the panel of the
\* first call, and a button of that panel has been pressed.
C10_Witness ==
    /\ Len(returned) = MaxPanelCalls
    /\ returned[2].ui # returned[1].ui
    /\ returned[2].parent # returned[1].parent
    /\ returned[2].result = returned[1].result
    /\ added # <<>>

============================================================================
